---- MODULE Spec2Model ----
(***************************************************************************)
(* The NPC viewer (React component App) as a state machine.                *)
(*                                                                         *)
(* The repository holds three revisions of the component that the          *)
(* statements checked here refer to:                                       *)
(*   "App1"    src/viewer/src/App.tsx lines   1-170  (wobble only)         *)
(*   "App2"    src/viewer/src/App.tsx lines 171-394  (fixed zone table)    *)
(*   "part001" src/unnamed/part_001                  (responsive zones,    *)
(*             activity feed, detail view)                                 *)
(* The variable rev fixes the revision of a run; every handler is the      *)
(* translation of that revision's code.  (Lines 395-540 of App.tsx are an  *)
(* older copy of App1 without the reset handling and are not modelled.)    *)
(*                                                                         *)
(* Coordinates are whole pixels.  A fraction of a pixel in a zone anchor   *)
(* (canvas width / 6) is rounded down.  Glyphs are written as ASCII names. *)
(***************************************************************************)
EXTENDS Integers, Sequences, FiniteSets, TLC

\* ------------------------------------------------------------ bounds
\* Events handled after the mount (frames, responses, gestures).
MaxEvents == 5
\* Snapshot requests in flight at the same time.
MaxDumps == 2
\* Reset, recall and persist calls in flight at the same time (each kind).
MaxCalls == 1
\* The identifiers 0..MaxId and the number of records placed in one zone
\* (specification SpecOffset).
MaxId == 8
MaxPlaced == 2

\* ------------------------------------------------- program constants
WIDTH == 800
HEIGHT == 500
OFFSET == 18
\* Math.max(10, Math.min(WIDTH - 10, ...)): the clamp margin
MARGIN == 10
\* Math.random() * (WIDTH - 40) + 20: the inset of randomPos
INSET == 20
\* (Math.random() - 0.5) * 20: the width of the wobble
WOBBLE == 20
\* Math.max(500, window.innerHeight - 120)
MIN_HEIGHT == 500
HEADER == 120

\* JavaScript's undefined where a number is expected: a coordinate a roster
\* row does not carry, an identifier a frame does not carry, null for no selection
NoCoord == -1000000
NoId == -1
Undefined == "undefined"
\* An absent or empty zone string: both are falsy in every test the code makes.
NoZone == ""

Revs == {"App1", "App2", "part001"}

Pt(px, py) == [x |-> px, y |-> py]

\* useState({ width: 1000, height: 600 })
InitialCanvas == [width |-> 1000, height |-> 600]

\* The loader and the stream handler are created once (dependency list []),
\* so the ZONE table and randomPos they see are those of the first render.
HandlerCanvas == InitialCanvas

\* ------------------------------------------------------- arithmetic
\* x !== undefined
IsNum(a) == a # NoCoord
Min2(a, b) == IF a < b THEN a ELSE b
Max2(a, b) == IF a > b THEN a ELSE b
\* Math.max(lo, Math.min(hi, v))
Clamp(lo, hi, v) == Max2(lo, Min2(hi, v))

\* ------------------------------------------------------ static tables
ZoneNames == {"ENTRANCE", "BUFFET", "DANCE", "STAGE", "QUIET"}

\* App2: const ZONE (fixed anchors)
ZONE_FIXED ==
  [ENTRANCE |-> Pt(100, 100), BUFFET |-> Pt(150, 250), DANCE |-> Pt(350, 200),
   STAGE |-> Pt(550, 150), QUIET |-> Pt(300, 400)]

\* part001: const ZONE = useMemo(..., [canvasSize])
ZONE(cs) ==
  [ENTRANCE |-> Pt(cs.width \div 6, (cs.height * 35) \div 100),
   DANCE    |-> Pt(cs.width \div 2, (cs.height * 35) \div 100),
   STAGE    |-> Pt((cs.width * 5) \div 6, (cs.height * 35) \div 100),
   BUFFET   |-> Pt(cs.width \div 4, (cs.height * 85) \div 100),
   QUIET    |-> Pt((cs.width * 3) \div 4, (cs.height * 85) \div 100)]

ZONE_EMOJI ==
  [ENTRANCE |-> "door", BUFFET |-> "plate", DANCE |-> "dancer",
   STAGE |-> "microphone", QUIET |-> "shush"]

NamedIds == 1..6
NPC_NAMES ==
  [i \in NamedIds |->
     CASE i = 1 -> "Phoebe" [] i = 2 -> "Sheldon" [] i = 3 -> "Dwight"
       [] i = 4 -> "Michael" [] i = 5 -> "David" [] OTHER -> "Moira"]

\* isZoneKey: hasOwnProperty(ZONE_EMOJI, zone)
isZoneKey(zone) == zone \in ZoneNames

\* zone && ZONE[zone]  (truthy exactly for a key of the table)
HasAnchor(zone) == zone # NoZone /\ zone \in ZoneNames

\* The viewport of a revision: the fixed stage of App1/App2, the canvas of part001
Viewport(rv, cs) ==
  IF rv = "part001" THEN cs ELSE [width |-> WIDTH, height |-> HEIGHT]

\* Math.random() lies in [0, 1).  A draw u is 0 (the lowest value) or 1 (the
\* highest, just below 1); the calls of one handler run all return the same u.
Rand == {0, 1}
NoDraw == 0

\* randomPos(): Math.random() * (width - 40) + 20 lies in [20, width - 20)
randomPos(rv, u) ==
  LET v == Viewport(rv, HandlerCanvas)
  IN IF u = 0 THEN Pt(INSET, INSET)
     ELSE Pt(v.width - INSET - 1, v.height - INSET - 1)

\* (Math.random() - 0.5) * 20 lies in [-10, 10)
wobble(u) == IF u = 0 THEN -(WOBBLE \div 2) ELSE (WOBBLE \div 2) - 1

\* deterministic offset so NPCs don't pile up
offsetX(id) == (id % 4) * OFFSET
\* a row offset taken from the column index
offsetY_column(id) == (id % 4) * OFFSET
offsetY(id) == (id \div 4) * OFFSET

\* ------------------------------------------------------------ records
Npc(i, px, py, b, t) == [id |-> i, x |-> px, y |-> py, bubble |-> b, tooltip |-> t]
NoNpc == Npc(NoId, NoCoord, NoCoord, Undefined, Undefined)

\* { ...prev, [k]: r }
Put(m, k, r) == [i \in DOMAIN m \cup {k} |-> IF i = k THEN r ELSE m[i]]
\* prev[k] ?? d
Get(m, k, d) == IF k \in DOMAIN m THEN m[k] ELSE d
Empty == [i \in {} |-> NoNpc]

\* ------------------------------------------------------------- inputs
Ids == {0, 1, 42}
\* zone of a frame or a row: absent, in the registry, not in the registry
Zones == {NoZone, "BUFFET", "LOUNGE"}
Labels == {"eat"}

\* A roster row { npc_id, x?, y?, zone? }; x = y = NoCoord when the row carries none
Row(i, px, py, z) == [npc_id |-> i, x |-> px, y |-> py, zone |-> z]
\* the rosters GET state_dump returns, one row per NPC.  App1's server sends
\* the saved (x, y) of every NPC and no zone.
Rosters(rv) ==
  IF rv = "App1"
  THEN { <<>>,
         <<Row(1, 300, 200, NoZone), Row(42, 120, 80, NoZone)>>,
         <<Row(0, 120, 80, NoZone)>> }
  ELSE { <<>>,
         <<Row(1, 300, 200, "BUFFET"), Row(42, NoCoord, NoCoord, NoZone)>>,
         <<Row(0, NoCoord, NoCoord, "BUFFET")>> }

\* the frames the server pushes besides RESET: { npc_id?, action?, zone? }
Msg(i, a, z) == [npc_id |-> i, action |-> a, zone |-> z]
Msgs(rv) ==
  {Msg(i, a, z) : i \in Ids, a \in Labels,
                  z \in IF rv = "App1" THEN {NoZone} ELSE Zones}
  \cup {Msg(NoId, "eat", NoZone), Msg(1, Undefined, NoZone)}

\* GET recall -> { memories: [...] }
MemoryLists == {<<"met Dwight", "danced">>}

\* what the container and the window report to handleResize
Screens == {[offsetWidth |-> 600, innerHeight |-> 400]}

\* where a drag gesture can end: a point of the stage
DragPts(v) == {Pt(v.width \div 2, v.height \div 2)}

RECURSIVE Join(_)
\* memories.join("\n")
Join(ms) ==
  IF ms = <<>> THEN ""
  ELSE IF Len(ms) = 1 THEN ms[1]
  ELSE ms[1] \o "\n" \o Join(Tail(ms))

\* ------------------------------------------------------------- state
VARIABLES
  rev,                \* the revision of the component
  npcs,               \* useState<Record<number, Npc>>: the store
  feed,               \* useState<string[]>: the activity feed, newest first
  canvasSize,         \* useState({width, height})
  selectedNpc,        \* useState<number|null> (NoId for null)
  selectedNpcRecall,  \* useState<string[]>
  recallFor,          \* the identifier whose recall query returned selectedNpcRecall
                      \* (NoId for the list no query returned)
  ws,                 \* the WebSocket: CONNECTING, OPEN, CLOSED
  dumps,              \* GET state_dump requests in flight
  requests,           \* the state_dump requests by order of issue: how many were
                      \* issued, and which of them are still in flight
  resets,             \* POST reset calls in flight
  recalls,            \* GET recall queries in flight, each with the n it closed over
  persists,           \* POST state calls in flight
  events,             \* events handled since the mount
  last                \* the event handled last, its inputs and what it replaced

vars == <<rev, npcs, feed, canvasSize, selectedNpc, selectedNpcRecall,
          recallFor, ws,
          dumps, requests, resets, recalls, persists, events, last>>

Event(op) ==
  [op |-> op, id |-> NoId, action |-> "", zone |-> NoZone, rows |-> <<>>,
   at |-> Pt(0, 0), u |-> NoDraw, why |-> "", threw |-> FALSE,
   before |-> NoNpc, had |-> {}, fed |-> 0, req |-> 0]

\* every handler records the identifiers and the feed length it started from
Seen(e) == [e EXCEPT !.had = DOMAIN npcs, !.fed = Len(feed)]

\* one more event is handled
Tick == events < MaxEvents /\ events' = events + 1

\* loadStateDump() is called: one more GET state_dump is in flight
Issue(rq) ==
  [issued |-> rq.issued + 1, pending |-> rq.pending \cup {rq.issued + 1}]

Init ==
  /\ rev \in Revs
  /\ npcs = Empty
  /\ feed = <<>>
  /\ canvasSize = InitialCanvas
  /\ selectedNpc = NoId
  /\ selectedNpcRecall = <<>>
  /\ recallFor = NoId
  /\ ws = "CONNECTING"
  /\ dumps = 1
  /\ requests = [issued |-> 1, pending |-> {1}]
  /\ resets = 0
  /\ recalls = {}
  /\ persists = 0
  /\ events = 0
  /\ last = Event("mount")

\* ------------------------------------------------------ snapshot loader
\* App1: pre[npc_id] = { id: npc_id, x, y, emoji }
RowApp1(row) == Npc(row.npc_id, row.x, row.y, "smile", Undefined)

\* App2: explicit x,y, else the zone's anchor, else randomPos(); plus the offset
RowApp2(row, rp) ==
  LET anchor == IF IsNum(row.x) /\ IsNum(row.y) THEN Pt(row.x, row.y)
                ELSE IF row.zone \in ZoneNames THEN ZONE_FIXED[row.zone]
                ELSE rp
  IN Npc(row.npc_id, anchor.x + offsetX(row.npc_id),
         anchor.y + offsetY(row.npc_id), "smile", Undefined)

\* part001: the zone's anchor, else randomPos(); plus the offset
RowPart001(row, rp) ==
  LET anchor == IF HasAnchor(row.zone) THEN ZONE(HandlerCanvas)[row.zone] ELSE rp
  IN Npc(row.npc_id, anchor.x + offsetX(row.npc_id),
         anchor.y + offsetY(row.npc_id), Undefined, Undefined)

FreshRow(rv, row, u) ==
  CASE rv = "App1" -> RowApp1(row)
    [] rv = "App2" -> RowApp2(row, randomPos(rv, u))
    [] OTHER -> RowPart001(row, randomPos(rv, u))

\* does the row draw randomPos()?
RowDraws(rv, row) ==
  CASE rv = "App1" -> FALSE
    [] rv = "App2" -> ~(IsNum(row.x) /\ IsNum(row.y)) /\ row.zone \notin ZoneNames
    [] OTHER -> ~HasAnchor(row.zone)

RECURSIVE Fresh(_, _, _, _)
\* rows.forEach(...) from row k on: later rows overwrite earlier ones
Fresh(rv, rows, u, k) ==
  IF k > Len(rows) THEN Empty
  ELSE LET rest == Fresh(rv, rows, u, k + 1)
           r == FreshRow(rv, rows[k], u)
       IN [i \in DOMAIN rest \cup {r.id} |->
             IF i \in DOMAIN rest THEN rest[i] ELSE r]

\* the draws the loader's result depends on
Draws(rv, rows) ==
  IF \E k \in 1..Len(rows) : RowDraws(rv, rows[k]) THEN Rand ELSE {NoDraw}

RowIds(rows) == {rows[k].npc_id : k \in 1..Len(rows)}

\* a loader that merges the roster into the records it finds
AfterDump_merged(rv, store, why, rows, u) ==
  LET fresh == Fresh(rv, rows, u, 1)
  IN CASE why = "ok" -> [i \in DOMAIN store \cup DOMAIN fresh |->
                           IF i \in DOMAIN fresh THEN fresh[i] ELSE store[i]]
       [] why = "status" -> Empty
       [] OTHER -> store

\* the store after the state_dump response `why` is handled
\*   ok: a success status with a roster; status: a non-success status;
\*   network: fetch rejects; body: res.json() rejects
AfterDump(rv, store, why, rows, u) ==
  CASE why = "ok" -> Fresh(rv, rows, u, 1)
    [] why = "status" -> Empty
    [] OTHER -> store

\* does the failure leave the loader as an unhandled rejection?
DumpThrows(rv, why) == rv = "App1" /\ why \in {"network", "body"}

loadStateDumpDone(why, rows, u) ==
  /\ dumps > 0
  /\ dumps' = dumps - 1
  /\ npcs' = AfterDump(rev, npcs, why, rows, u)
  /\ Tick
  /\ \E q \in requests.pending :
        /\ requests' = [requests EXCEPT !.pending = @ \ {q}]
        /\ last' = Seen([Event("dump") EXCEPT !.why = why, !.rows = rows,
                                              !.u = u, !.req = q,
                                              !.threw = DumpThrows(rev, why)])
  /\ UNCHANGED <<rev, feed, canvasSize, selectedNpc, selectedNpcRecall, recallFor, ws,
                 resets, recalls, persists>>

DumpResponse ==
  \/ \E rows \in Rosters(rev) : \E u \in Draws(rev, rows) :
        loadStateDumpDone("ok", rows, u)
  \/ \E why \in {"status", "network", "body"} :
        loadStateDumpDone(why, <<>>, NoDraw)

\* ------------------------------------------------------- event stream
WsOpen ==
  /\ ws = "CONNECTING"
  /\ ws' = "OPEN"
  /\ Tick
  /\ last' = Seen(Event("open"))
  /\ UNCHANGED <<rev, npcs, feed, canvasSize, selectedNpc, selectedNpcRecall, recallFor,
                 dumps, requests, resets, recalls, persists>>

\* a close handler that dials again
WsClose_reconnects ==
  /\ ws \in {"CONNECTING", "OPEN"}
  /\ ws' = "CONNECTING"
  /\ Tick
  /\ last' = Seen(Event("close"))
  /\ UNCHANGED <<rev, npcs, feed, canvasSize, selectedNpc, selectedNpcRecall, recallFor,
                 dumps, requests, resets, recalls, persists>>

\* the server or the network ends the connection; nothing reopens it
WsClose ==
  /\ ws \in {"CONNECTING", "OPEN"}
  /\ ws' = "CLOSED"
  /\ Tick
  /\ last' = Seen(Event("close"))
  /\ UNCHANGED <<rev, npcs, feed, canvasSize, selectedNpc, selectedNpcRecall, recallFor,
                 dumps, requests, resets, recalls, persists>>

\* does the RESET branch re-pull the roster?  (App1 only wipes)
ResetReloads(rv) == rv # "App1"

\* a RESET frame that leaves the records in place
storeAfterReset_kept(store) == store

\* setNpcs({}) of the RESET branch
storeAfterReset(store) == Empty

\* a RESET frame that also clears the feed
FrameReset_clearsFeed ==
  /\ ws = "OPEN"
  /\ ResetReloads(rev) => dumps < MaxDumps
  /\ npcs' = storeAfterReset(npcs)
  /\ feed' = <<>>
  /\ dumps' = IF ResetReloads(rev) THEN dumps + 1 ELSE dumps
  /\ requests' = IF ResetReloads(rev) THEN Issue(requests) ELSE requests
  /\ Tick
  /\ last' = Seen(Event("RESET"))
  /\ UNCHANGED <<rev, canvasSize, selectedNpc, selectedNpcRecall, recallFor, ws,
                 resets, recalls, persists>>

\* msg.type === "RESET": setNpcs({}); loadStateDump(); return
FrameReset ==
  /\ ws = "OPEN"
  /\ ResetReloads(rev) => dumps < MaxDumps
  /\ npcs' = storeAfterReset(npcs)
  /\ dumps' = IF ResetReloads(rev) THEN dumps + 1 ELSE dumps
  /\ requests' = IF ResetReloads(rev) THEN Issue(requests) ELSE requests
  /\ Tick
  /\ last' = Seen(Event("RESET"))
  /\ UNCHANGED <<rev, feed, canvasSize, selectedNpc, selectedNpcRecall, recallFor, ws,
                 resets, recalls, persists>>

\* if (msg.npc_id === undefined || msg.action === undefined) return;
\* App1 has no such test
Discards(rv, id, action) == rv # "App1" /\ (id = NoId \/ action = Undefined)

\* App1: wobble around the previous (or a fresh random) position
UpdateApp1(prev, id, action, u) ==
  LET rp == randomPos("App1", u)
      dx == wobble(u)
      dy == wobble(u)
      current == Get(prev, id, Npc(id, rp.x, rp.y, action, Undefined))
  IN [current EXCEPT
        !.x = Clamp(MARGIN, WIDTH - MARGIN, current.x + dx),
        !.y = Clamp(MARGIN, HEIGHT - MARGIN, current.y + dy),
        !.bubble = action]

\* App2: zone anchor + offset, wobble if no anchor
UpdateApp2(prev, id, action, zone, u) ==
  LET rp == randomPos("App2", u)
      dx == wobble(u)
      dy == wobble(u)
      current == Get(prev, id, Npc(id, rp.x, rp.y, action, Undefined))
      anchored == zone # NoZone /\ zone \in ZoneNames
  IN [current EXCEPT
        !.x = IF anchored THEN ZONE_FIXED[zone].x + offsetX(id)
              ELSE Clamp(MARGIN, WIDTH - MARGIN, current.x + dx),
        !.y = IF anchored THEN ZONE_FIXED[zone].y + offsetY(id)
              ELSE Clamp(MARGIN, HEIGHT - MARGIN, current.y + dy),
        !.bubble = action]

\* a handler that spreads the records by how many the store holds already
UpdatePart001_crowd(id, action, zone, u) ==
  LET anchor == IF HasAnchor(zone) THEN ZONE(HandlerCanvas)[zone]
                ELSE randomPos("part001", u)
      rank == Cardinality(DOMAIN npcs \ {id})
  IN Npc(id, anchor.x + (rank % 4) * OFFSET, anchor.y + (rank \div 4) * OFFSET,
         IF zone # NoZone /\ zone \in ZoneNames THEN ZONE_EMOJI[zone] ELSE action,
         Undefined)

\* part001: zone anchor or randomPos(), plus the offset; a new record each time
UpdatePart001(id, action, zone, u) ==
  LET anchor == IF HasAnchor(zone) THEN ZONE(HandlerCanvas)[zone]
                ELSE randomPos("part001", u)
  IN Npc(id, anchor.x + offsetX(id), anchor.y + offsetY(id),
         IF zone # NoZone /\ zone \in ZoneNames THEN ZONE_EMOJI[zone] ELSE action,
         Undefined)

applyUpdate(rv, prev, id, action, zone, u) ==
  CASE rv = "App1" -> UpdateApp1(prev, id, action, u)
    [] rv = "App2" -> UpdateApp2(prev, id, action, zone, u)
    [] OTHER -> UpdatePart001(id, action, zone, u)

\* does the handler's result depend on a draw of Math.random()?
UsesRandom(rv, zone) ==
  CASE rv = "App1" -> TRUE
    [] rv = "App2" -> ~(zone # NoZone /\ zone \in ZoneNames)
    [] OTHER -> ~HasAnchor(zone)

\* NPC_NAMES[id] || "NPC " + id
DisplayName(id) == IF id \in NamedIds THEN NPC_NAMES[id] ELSE "NPC " \o ToString(id)

FeedLine(id, zone) ==
  zone \o " -> " \o DisplayName(id) \o ": " \o ZONE_EMOJI[zone]

\* if (msg.npc_id && msg.action && msg.zone) { if (isZoneKey(zone)) ... }
Feeds(rv, id, action, zone) ==
  /\ rv = "part001"
  /\ id # 0 /\ id # NoId
  /\ action # "" /\ action # Undefined
  /\ zone # NoZone
  /\ isZoneKey(zone)

\* a handler that logs every Update of part001, with or without a zone
feedAfter_everyUpdate(rv, fd, id, action, zone) ==
  IF rv = "part001"
  THEN <<zone \o " -> " \o DisplayName(id) \o ": " \o action>> \o fd
  ELSE fd

\* setFeed((prev) => [line, ...prev])
feedAfter(rv, fd, id, action, zone) ==
  IF Feeds(rv, id, action, zone) THEN <<FeedLine(id, zone)>> \o fd ELSE fd

FrameUpdate(id, action, zone, u) ==
  /\ ws = "OPEN"
  /\ Tick
  /\ IF Discards(rev, id, action)
     THEN /\ UNCHANGED <<npcs, feed>>
          /\ last' = Seen([Event("discard") EXCEPT !.id = id, !.action = action,
                                                   !.zone = zone])
     ELSE /\ npcs' = Put(npcs, id, applyUpdate(rev, npcs, id, action, zone, u))
          /\ feed' = feedAfter(rev, feed, id, action, zone)
          /\ last' = Seen([Event("Update") EXCEPT
                             !.id = id, !.action = action, !.zone = zone,
                             !.u = u,
                             !.before = Get(npcs, id, NoNpc)])
  /\ UNCHANGED <<rev, canvasSize, selectedNpc, selectedNpcRecall, recallFor, ws,
                 dumps, requests, resets, recalls, persists>>

\* a parse error that ends the connection
wsAfterParseError_closed(w) == "CLOSED"

\* JSON.parse(e.data) throws out of ws.onmessage: the exception is reported
\* as an uncaught error and the socket stays as it is
wsAfterParseError(w) == w

\* a frame whose payload is not JSON: the handler ends at its first line
FrameMalformed ==
  /\ ws = "OPEN"
  /\ ws' = wsAfterParseError(ws)
  /\ Tick
  /\ last' = Seen([Event("malformed") EXCEPT !.threw = TRUE])
  /\ UNCHANGED <<rev, npcs, feed, canvasSize, selectedNpc, selectedNpcRecall, recallFor,
                 dumps, requests, resets, recalls, persists>>

Frame ==
  \E msg \in Msgs(rev) :
    \E u \in IF ~Discards(rev, msg.npc_id, msg.action) /\ UsesRandom(rev, msg.zone)
              THEN Rand ELSE {NoDraw} :
      FrameUpdate(msg.npc_id, msg.action, msg.zone, u)

\* ------------------------------------------------------- reset button
\* handleReset up to the await
ResetClick ==
  /\ resets < MaxCalls
  /\ resets' = resets + 1
  /\ Tick
  /\ last' = Seen(Event("resetClick"))
  /\ UNCHANGED <<rev, npcs, feed, canvasSize, selectedNpc, selectedNpcRecall, recallFor, ws,
                 dumps, requests, recalls, persists>>

\* handleReset after the await.  why: ok, status (non-success), network
ResetWipes(why) == why = "ok"
ResetThrows(rv, why) == rv # "App1" /\ why = "network"

handleResetDone(why) ==
  /\ resets > 0
  /\ resets' = resets - 1
  /\ (ResetWipes(why) /\ ResetReloads(rev)) => dumps < MaxDumps
  /\ npcs' = IF ResetWipes(why) THEN Empty ELSE npcs
  /\ dumps' = IF ResetWipes(why) /\ ResetReloads(rev) THEN dumps + 1 ELSE dumps
  /\ requests' = IF ResetWipes(why) /\ ResetReloads(rev)
                  THEN Issue(requests) ELSE requests
  /\ Tick
  /\ last' = Seen([Event("reset") EXCEPT !.why = why,
                                         !.threw = ResetThrows(rev, why)])
  /\ UNCHANGED <<rev, feed, canvasSize, selectedNpc, selectedNpcRecall, recallFor, ws,
                 recalls, persists>>

ResetResponse == \E why \in {"ok", "status", "network"} : handleResetDone(why)

\* ------------------------------------------------------------ gestures
\* a drag end that is laid out like an Update: the anti-overlap offset is added
onDragEnd_offset(k, p) ==
  /\ k \in DOMAIN npcs
  /\ persists < MaxCalls
  /\ LET n == npcs[k]
     IN /\ npcs' = Put(npcs, n.id, [n EXCEPT !.x = p.x + offsetX(n.id),
                                             !.y = p.y + offsetY(n.id)])
        /\ Tick
        /\ last' = Seen([Event("drag") EXCEPT !.id = n.id, !.at = p,
                                              !.before = n])
  /\ persists' = persists + 1
  /\ UNCHANGED <<rev, feed, canvasSize, selectedNpc, selectedNpcRecall, recallFor, ws,
                 dumps, requests, resets, recalls>>

\* onDragEnd: setNpcs(prev => ({ ...prev, [n.id]: { ...n, x, y } })) and POST state
\* n is the record of the render the gesture happens in
onDragEnd(k, p) ==
  /\ k \in DOMAIN npcs
  /\ persists < MaxCalls
  /\ LET n == npcs[k]
     IN /\ npcs' = Put(npcs, n.id, [n EXCEPT !.x = p.x, !.y = p.y])
        /\ Tick
        /\ last' = Seen([Event("drag") EXCEPT !.id = n.id, !.at = p,
                                              !.before = n])
  /\ persists' = persists + 1
  /\ UNCHANGED <<rev, feed, canvasSize, selectedNpc, selectedNpcRecall, recallFor, ws,
                 dumps, requests, resets, recalls>>

Drag == \E k \in DOMAIN npcs : \E p \in DragPts(Viewport(rev, canvasSize)) : onDragEnd(k, p)

\* the POST state call settles: nothing reads the outcome, and a rejected
\* fetch has no catch.  why: ok, status (non-success), network
PersistSettles(why) ==
  /\ persists > 0
  /\ persists' = persists - 1
  /\ Tick
  /\ last' = Seen([Event("persist") EXCEPT !.why = why,
                                           !.threw = (why = "network")])
  /\ UNCHANGED <<rev, npcs, feed, canvasSize, selectedNpc, selectedNpcRecall, recallFor, ws,
                 dumps, requests, resets, recalls>>

PersistDone == \E why \in {"ok", "status", "network"} : PersistSettles(why)

\* handleResize (part001)
handleResize(scr) ==
  /\ rev = "part001"
  /\ canvasSize' = [width |-> scr.offsetWidth,
                    height |-> Max2(MIN_HEIGHT, scr.innerHeight - HEADER)]
  /\ Tick
  /\ last' = Seen(Event("resize"))
  /\ UNCHANGED <<rev, npcs, feed, selectedNpc, selectedNpcRecall, recallFor, ws,
                 dumps, requests, resets, recalls, persists>>

Resize == \E scr \in Screens : handleResize(scr)

\* --------------------------------------------------------------- recall
\* the query of a hover (App1, App2) or a click (part001): the callback keeps
\* the n of the render it was created in; part001 reads only n.id
Query(rv, n) ==
  [n |-> IF rv = "part001" THEN Npc(n.id, NoCoord, NoCoord, Undefined, Undefined) ELSE n]

\* onMouseOver (App1, App2): fetch recall
onMouseOver(k) ==
  /\ rev \in {"App1", "App2"}
  /\ k \in DOMAIN npcs
  /\ Cardinality(recalls) < MaxCalls
  /\ recalls' = recalls \cup {Query(rev, npcs[k])}
  /\ Tick
  /\ last' = Seen([Event("hover") EXCEPT !.id = npcs[k].id, !.before = npcs[k]])
  /\ UNCHANGED <<rev, npcs, feed, canvasSize, selectedNpc, selectedNpcRecall, recallFor, ws,
                 dumps, requests, resets, persists>>

\* onMouseOut (App1, App2): setNpcs(prev => ({...prev, [n.id]: {...n, tooltip: undefined}}))
onMouseOut(k) ==
  /\ rev \in {"App1", "App2"}
  /\ k \in DOMAIN npcs
  /\ LET n == npcs[k]
     IN /\ npcs' = Put(npcs, n.id, [n EXCEPT !.tooltip = Undefined])
        /\ Tick
        /\ last' = Seen([Event("mouseOut") EXCEPT !.id = n.id, !.before = n])
  /\ UNCHANGED <<rev, feed, canvasSize, selectedNpc, selectedNpcRecall, recallFor, ws,
                 dumps, requests, resets, recalls, persists>>

\* onClick (part001): setSelectedNpc(n.id); fetch recall
onClick(k) ==
  /\ rev = "part001"
  /\ k \in DOMAIN npcs
  /\ Cardinality(recalls) < MaxCalls
  /\ selectedNpc' = npcs[k].id
  /\ recalls' = recalls \cup {Query(rev, npcs[k])}
  /\ Tick
  /\ last' = Seen([Event("click") EXCEPT !.id = npcs[k].id, !.before = npcs[k]])
  /\ UNCHANGED <<rev, npcs, feed, canvasSize, selectedNpcRecall, recallFor, ws,
                 dumps, requests, resets, persists>>

\* the store after the recall response for the callback's n
\* App1, App2: setNpcs(prev => ({...prev, [n.id]: {...n, tooltip: memories.join("\n")}}))
\* part001: the store is not written
storeAfterRecall(rv, store, n, ms) ==
  IF rv = "part001" THEN store
  ELSE Put(store, n.id, [n EXCEPT !.tooltip = Join(ms)])

\* .then(data => ...) of a recall query
RecallOk(q, ms) ==
  /\ q \in recalls
  /\ recalls' = recalls \ {q}
  /\ npcs' = storeAfterRecall(rev, npcs, q.n, ms)
  /\ selectedNpcRecall' = IF rev = "part001" THEN ms ELSE selectedNpcRecall
  /\ recallFor' = IF rev = "part001" THEN q.n.id ELSE recallFor
  /\ Tick
  /\ last' = Seen([Event("recall") EXCEPT !.id = q.n.id, !.why = "ok",
                                          !.before = Get(npcs, q.n.id, NoNpc)])
  /\ UNCHANGED <<rev, feed, canvasSize, selectedNpc, ws, dumps, requests, resets,
                 persists>>

\* the query rejects (transport, no JSON): no revision has a catch
RecallFail(q) ==
  /\ q \in recalls
  /\ recalls' = recalls \ {q}
  /\ Tick
  /\ last' = Seen([Event("recall") EXCEPT !.id = q.n.id, !.why = "network",
                                          !.threw = TRUE,
                                          !.before = Get(npcs, q.n.id, NoNpc)])
  /\ UNCHANGED <<rev, npcs, feed, canvasSize, selectedNpc, selectedNpcRecall, recallFor, ws,
                 dumps, requests, resets, persists>>

\* Close button (part001)
CloseDetail ==
  /\ rev = "part001"
  /\ selectedNpc # NoId
  /\ selectedNpc' = NoId
  /\ selectedNpcRecall' = <<>>
  /\ recallFor' = NoId
  /\ Tick
  /\ last' = Seen(Event("closeDetail"))
  /\ UNCHANGED <<rev, npcs, feed, canvasSize, ws, dumps, requests, resets, recalls,
                 persists>>

Hover == \E k \in DOMAIN npcs : onMouseOver(k)
MouseOut == \E k \in DOMAIN npcs : onMouseOut(k)
Click == \E k \in DOMAIN npcs : onClick(k)
RecallResponse ==
  \E q \in recalls : (\E ms \in MemoryLists : RecallOk(q, ms)) \/ RecallFail(q)

\* ---------------------------------------------------------------- system
Next ==
  \/ DumpResponse
  \/ WsOpen
  \/ WsClose
  \/ FrameReset
  \/ FrameMalformed
  \/ Frame
  \/ ResetClick
  \/ ResetResponse
  \/ Drag
  \/ PersistDone
  \/ Resize
  \/ Hover
  \/ MouseOut
  \/ Click
  \/ RecallResponse
  \/ CloseDetail

Spec == Init /\ [][Next]_vars

\* ================================================================ claims
\* the Zone Registry of a revision for a viewport
Registry(rv, cs) == IF rv = "part001" THEN ZONE(cs) ELSE ZONE_FIXED

\* a position inside the viewport v
InBounds(r, v) ==
  /\ 0 <= r.x /\ r.x <= v.width
  /\ 0 <= r.y /\ r.y <= v.height

\* the annotation a loader gives a new record: the smile glyph (App1, App2),
\* none (part001)
FreshBubbles == {"smile", Undefined}

\* C1: right after the stream handler has processed a RESET frame the store
\* holds no record, whatever it held before.
C1_ResetFrameEmptiesStore ==
  last.op = "RESET" => DOMAIN npcs = {}

\* C1 happens: a RESET frame was handled in a store that held records
C1_Witness ==
  last.op = "RESET" /\ last.had # {} /\ DOMAIN npcs = {}

\* C2: when a successful snapshot response is applied, the identifiers of the
\* store are exactly those of the roster rows, and every record is a new one:
\* no annotation and no tooltip of a record held before survives.
C2_SnapshotReplacesStore ==
  (last.op = "dump" /\ last.why = "ok") =>
     /\ DOMAIN npcs = RowIds(last.rows)
     /\ \A i \in DOMAIN npcs :
          /\ npcs[i].id = i
          /\ npcs[i].bubble \in FreshBubbles
          /\ npcs[i].tooltip = Undefined

\* C2 happens: a non-empty roster replaced a store that held a record the
\* roster does not name
C2_Witness ==
  /\ last.op = "dump" /\ last.why = "ok"
  /\ last.rows # <<>>
  /\ last.had \ RowIds(last.rows) # {}
  /\ DOMAIN npcs = RowIds(last.rows)

\* the revisions with a zone table and a validating stream handler
Zoned == {"App2", "part001"}

\* the record a roster row stands for after the load
RowRecord(row) == npcs[row.npc_id]

\* C3: for every roster row the loader applies, the record's position is
\* base + offset(identifier), where base is the row's explicit (x, y) if it
\* carries one, else the anchor of its zone if the registry has it, else a
\* position inside the viewport.
C3_SnapshotRowPlacement ==
  (rev \in Zoned /\ last.op = "dump" /\ last.why = "ok") =>
     \A k \in 1..Len(last.rows) :
        LET row == last.rows[k]
            r == RowRecord(row)
            base == Pt(r.x - offsetX(row.npc_id), r.y - offsetY(row.npc_id))
        IN IF IsNum(row.x) /\ IsNum(row.y) THEN base = Pt(row.x, row.y)
           ELSE IF row.zone \in ZoneNames
                THEN base = Registry(rev, canvasSize)[row.zone]
                ELSE InBounds(base, Viewport(rev, canvasSize))

\* C4: a snapshot request that fails (network error, non-success status,
\* malformed body) ends like an empty roster: the store is empty and no error
\* leaves the loader.
C4_FailedSnapshotIsEmptyRoster ==
  (last.op = "dump" /\ last.why # "ok") =>
     /\ DOMAIN npcs = {}
     /\ ~last.threw

\* C5: an Update frame with a zone of the registry puts the record at exactly
\* that zone's anchor plus offset(identifier), whatever its position was.
C5_ZoneUpdateSnapsToAnchor ==
  (rev \in Zoned /\ last.op = "Update" /\ last.zone \in ZoneNames) =>
     LET anchor == Registry(rev, canvasSize)[last.zone]
     IN /\ last.id \in DOMAIN npcs
        /\ npcs[last.id].x = anchor.x + offsetX(last.id)
        /\ npcs[last.id].y = anchor.y + offsetY(last.id)

Dist(a, b) == IF a < b THEN b - a ELSE a - b

\* C6: an Update frame for a record of the store, with no zone or a zone the
\* registry does not have, moves the record by at most the perturbation bound
\* on each axis and leaves it inside the viewport.
C6_ZonelessUpdatePerturbs ==
  (rev \in Zoned /\ last.op = "Update" /\ last.zone \notin ZoneNames
     /\ last.id \in last.had) =>
     /\ last.id \in DOMAIN npcs
     /\ Dist(npcs[last.id].x, last.before.x) <= WOBBLE \div 2
     /\ Dist(npcs[last.id].y, last.before.y) <= WOBBLE \div 2
     /\ InBounds(npcs[last.id], Viewport(rev, canvasSize))

\* C7: an Update frame for an identifier the store does not hold creates a
\* record for it, at a position inside the viewport, with or without a zone.
C7_LazyCreationInBounds ==
  (rev \in Zoned /\ last.op = "Update" /\ last.id \notin last.had) =>
     /\ last.id \in DOMAIN npcs
     /\ InBounds(npcs[last.id], Viewport(rev, canvasSize))

\* C8: in every reachable state every record of the store has a finite
\* position inside the current viewport.
C8_RecordsInsideViewport ==
  rev = "part001" =>
     \A i \in DOMAIN npcs : InBounds(npcs[i], Viewport(rev, canvasSize))

\* C9: a recall response changes no identifier, position or annotation: it
\* creates no record (none, either, for a target a Reset removed) and leaves
\* the target's id, x, y and annotation as they were.
C9_RecallTouchesOnlyMemory ==
  (last.op = "recall" /\ last.why = "ok") =>
     /\ DOMAIN npcs = last.had
     /\ last.id \in DOMAIN npcs =>
          /\ npcs[last.id].id = last.before.id
          /\ npcs[last.id].x = last.before.x
          /\ npcs[last.id].y = last.before.y
          /\ npcs[last.id].bubble = last.before.bubble

\* C10: every Update frame that passes validation and carries a zone of the
\* registry prepends exactly one feed entry
\* "<zone> -> <display name or identifier>: <glyph>".
C10_ZoneUpdateFeedsOneLine ==
  (rev = "part001" /\ last.op = "Update" /\ last.zone \in ZoneNames) =>
     /\ Len(feed) = last.fed + 1
     /\ \E who \in {DisplayName(last.id), ToString(last.id)} :
          Head(feed) = last.zone \o " -> " \o who \o ": " \o ZONE_EMOJI[last.zone]

\* the code configures no capacity for the feed.  Whatever the capacity, a
\* connection can deliver one zone Update more: the capacity taken here is
\* the largest one that the runs of the model can still exceed.
FeedCapacity == MaxEvents - 2

\* C11: the Activity Feed is bounded: in every reachable state it holds at most
\* the configured capacity of entries, and a prepend to a full feed evicts the
\* oldest entry, so the feed is no longer after it than before.
C11_FeedBounded ==
  /\ Len(feed) <= FeedCapacity
  /\ (last.op = "Update" /\ last.fed = FeedCapacity) => Len(feed) = FeedCapacity

\* C12: a Reset, from a RESET frame or from the reset button (the click and
\* the handling of the POST reset response), leaves the Activity Feed as it
\* was: the same entries in the same order.
C12_ResetKeepsFeed ==
  [][last'.op \in {"RESET", "resetClick", "reset"} => feed' = feed]_vars

\* C12 happens: a RESET frame emptied a store while the feed held entries,
\* and the feed still holds them
C12_Witness ==
  /\ last.op = "RESET"
  /\ last.had # {}
  /\ last.fed > 0
  /\ Len(feed) = last.fed

\* C13: an Update frame whose zone is absent or not in the registry adds no
\* entry to the Activity Feed, and changes nothing but the record it names:
\* every other record stays as it was and no other record appears.
C13_ZonelessUpdateFeedsNothing ==
  [][(last'.op = "Update" /\ last'.zone \notin ZoneNames) =>
       /\ feed' = feed
       /\ DOMAIN npcs' = DOMAIN npcs \cup {last'.id}
       /\ npcs'[last'.id].id = last'.id
       /\ \A i \in DOMAIN npcs \ {last'.id} : npcs'[i] = npcs[i]]_vars

\* C13 happens: an Update with the unknown zone LOUNGE was applied to a record
\* of a store with other records, when the feed held entries
C13_Witness ==
  /\ rev = "part001"
  /\ last.op = "Update"
  /\ last.zone = "LOUNGE"
  /\ last.id \in last.had
  /\ last.had # {last.id}
  /\ last.fed > 0
  /\ Len(feed) = last.fed

\* C14: a stream frame other than RESET that lacks the identifier or the
\* action label is discarded: the store and the Activity Feed are exactly as
\* before the frame, so no record is created.
C14_IncompleteFrameDiscarded ==
  [][(last'.op \in {"Update", "discard"}
        /\ (last'.id = NoId \/ last'.action = Undefined)) =>
       (npcs' = npcs /\ feed' = feed)]_vars

\* C15: a stream frame whose payload cannot be parsed is discarded on its own:
\* the store, the feed and the connection are as before, nothing is requested
\* or queued for it, and the connection still dispatches the frames that
\* arrive after it.
C15_MalformedFrameDiscarded ==
  /\ [][last'.op = "malformed" =>
          UNCHANGED <<npcs, feed, ws, dumps, requests, resets, recalls, persists,
                      selectedNpc, selectedNpcRecall, recallFor, canvasSize>>]_vars
  /\ []((last.op = "malformed" /\ events < MaxEvents) =>
          /\ ws = "OPEN"
          /\ ENABLED Frame
          /\ dumps < MaxDumps => ENABLED FrameReset)

\* C15 happens: an unparseable frame arrived on a connection whose store and
\* feed held entries, and the connection is open afterwards
C15_Witness ==
  /\ last.op = "malformed"
  /\ last.had # {}
  /\ DOMAIN npcs = last.had
  /\ last.fed > 0
  /\ Len(feed) = last.fed
  /\ ws = "OPEN"

\* C16: the reset button clears the local store only when the POST reset call
\* succeeds.  On a non-success status or a transport failure the store is as
\* it was and no snapshot reload is issued; on success the store is empty and
\* one snapshot reload is issued.
C16_ResetGatedBySuccess ==
  [][last'.op = "reset" =>
       IF last'.why = "ok"
       THEN npcs' = Empty /\ dumps' = dumps + 1
       ELSE npcs' = npcs /\ dumps' = dumps]_vars

\* C17: a drag end at (x, y) on a record sets that record's position to
\* exactly (x, y), with no anchor and no offset, and changes no other record;
\* and when the persist call it issued settles, with success or with failure,
\* the store is as it was: a failed persist rolls nothing back.
C17_DragWinsPersistNeverWrites ==
  [][/\ last'.op = "drag" =>
          /\ DOMAIN npcs' = DOMAIN npcs
          /\ npcs'[last'.id] = [npcs[last'.id] EXCEPT !.x = last'.at.x,
                                                      !.y = last'.at.y]
          /\ \A i \in DOMAIN npcs \ {last'.id} : npcs'[i] = npcs[i]
     /\ last'.op = "persist" => npcs' = npcs]_vars

\* C17 happens: a persist call failed after a drag had moved a record with a
\* non-zero offset, in a store with another record, and the record is still
\* where the drag put it
C17_Witness ==
  /\ last.op = "persist"
  /\ last.why = "network"
  /\ \E i \in DOMAIN npcs :
       /\ offsetX(i) # 0
       /\ DOMAIN npcs # {i}
       /\ Pt(npcs[i].x, npcs[i].y) \in DragPts(Viewport(rev, canvasSize))

\* C18: a viewport resize by itself moves no record, and no zone anchor is
\* cached across a resize: every Update frame with a zone of the registry and
\* every snapshot row resolved by its zone is placed at the anchor computed
\* from the viewport of that moment, plus offset(identifier).
C18_AnchorsFollowResize ==
  [][/\ last'.op = "resize" => npcs' = npcs
     /\ (rev = "part001" /\ last'.op = "Update" /\ last'.zone \in ZoneNames) =>
          LET anchor == ZONE(canvasSize')[last'.zone]
          IN /\ npcs'[last'.id].x = anchor.x + offsetX(last'.id)
             /\ npcs'[last'.id].y = anchor.y + offsetY(last'.id)
     /\ (rev = "part001" /\ last'.op = "dump" /\ last'.why = "ok") =>
          \A k \in 1..Len(last'.rows) :
             LET row == last'.rows[k]
             IN row.zone \in ZoneNames =>
                  /\ npcs'[row.npc_id].x
                        = ZONE(canvasSize')[row.zone].x + offsetX(row.npc_id)
                  /\ npcs'[row.npc_id].y
                        = ZONE(canvasSize')[row.zone].y + offsetY(row.npc_id)]_vars

\* C19: applying the same snapshot roster twice in a row yields the same
\* record set as applying it once: the same identifiers, positions and
\* annotations, for every roster, also one with a row that carries neither
\* coordinates nor a zone of the registry.
C19_SnapshotIdempotent ==
  [][(/\ last.op = "dump" /\ last.why = "ok"
      /\ last'.op = "dump" /\ last'.why = "ok"
      /\ last'.rows = last.rows) => npcs' = npcs]_vars

\* the anchor the loader and the stream handler hold for a zone
HeldAnchor(rv, zone) == Registry(rv, HandlerCanvas)[zone]

\* the position of record i less the offset of identifier i
LessOffset(i) == Pt(npcs[i].x - offsetX(i), npcs[i].y - offsetY(i))

\* C20: the anti-overlap offset depends on the identifier only.  Two runs that
\* place the same identifier at the same zone anchor agree on the position
\* exactly when the position is the anchor plus a function of the identifier
\* alone: after every zone Update and every snapshot row resolved by its zone,
\* in every reachable state (whatever records the store holds and whatever was
\* applied before), the record is at the anchor plus offset(identifier), the
\* same offset on both paths.
C20_OffsetByIdentifierOnly ==
  rev \in Zoned =>
    /\ (last.op = "Update" /\ last.zone \in ZoneNames) =>
          LessOffset(last.id) = HeldAnchor(rev, last.zone)
    /\ (last.op = "dump" /\ last.why = "ok") =>
          \A k \in 1..Len(last.rows) :
             LET row == last.rows[k]
             IN (row.zone \in ZoneNames
                   /\ (rev = "App2" => ~(IsNum(row.x) /\ IsNum(row.y)))) =>
                  LessOffset(row.npc_id) = HeldAnchor(rev, row.zone)

\* C20 happens: a zone Update for an identifier with a non-zero offset, in a
\* store with other records, lands on the position the snapshot row of the
\* same zone had given the record
C20_Witness ==
  /\ rev = "part001"
  /\ last.op = "Update"
  /\ last.zone \in ZoneNames
  /\ offsetX(last.id) # 0
  /\ last.id \in last.had
  /\ last.had # {last.id}
  /\ last.before.bubble = Undefined
  /\ Pt(last.before.x, last.before.y) = Pt(npcs[last.id].x, npcs[last.id].y)

\* C21: closing the detail view sets the selection to none and leaves the
\* memories fetched for the identifier as they were: the memory list the
\* component holds is the same before and after the close.
C21_CloseKeepsMemories ==
  [][last'.op = "closeDetail" =>
       /\ selectedNpc' = NoId
       /\ selectedNpcRecall' = selectedNpcRecall]_vars

\* C22: record lifecycle.  An identifier enters the store only in a step that
\* applies a snapshot row or an Update frame for that identifier (never in a
\* drag end, a mouse-out or a recall response); an identifier leaves the store
\* only in a step of a Reset, and that step empties the whole store.
C22_RecordLifecycle ==
  [][/\ \A i \in DOMAIN npcs' \ DOMAIN npcs :
          \/ last'.op = "dump" /\ i \in RowIds(last'.rows)
          \/ last'.op = "Update" /\ last'.id = i
     /\ (DOMAIN npcs \ DOMAIN npcs' # {}) =>
          /\ last'.op \in {"RESET", "reset"}
          /\ DOMAIN npcs' = {}]_vars

\* the events of the stream handler
FrameOps == {"Update", "discard", "RESET", "malformed"}

\* C23: the stream connection only moves forward along CONNECTING, OPEN,
\* CLOSED (a connection that fails goes from CONNECTING to CLOSED); CLOSED is
\* never left, so no second connection is made, and once the connection is
\* CLOSED no stream frame is handled: none changes the store or the feed.
C23_ConnectionOneWay ==
  [][/\ ws' # ws => <<ws, ws'>> \in {<<"CONNECTING", "OPEN">>,
                                     <<"OPEN", "CLOSED">>,
                                     <<"CONNECTING", "CLOSED">>}
     /\ ws = "CLOSED" => (ws' = "CLOSED" /\ last'.op \notin FrameOps)
     /\ last'.op \in FrameOps => ws = "OPEN"]_vars

\* C23 happens: the connection was open, delivered a zone Update, was closed,
\* and another event was handled after the close
C23_Witness ==
  /\ ws = "CLOSED"
  /\ last.op \notin {"close"} \cup FrameOps
  /\ Len(feed) > 0

\* C24: after an Update frame is applied the record's annotation is the glyph
\* of the frame's zone if the registry has the zone, and the frame's action
\* label otherwise; the same step writes position and annotation.
C24_AnnotationGlyphOrLabel ==
  (rev \in Zoned /\ last.op = "Update") =>
     /\ last.id \in DOMAIN npcs
     /\ npcs[last.id].bubble =
          IF last.zone \in ZoneNames THEN ZONE_EMOJI[last.zone] ELSE last.action

\* ------------------------------------------------- placement in one zone
\* The offset as a function of the identifier: the same handlers, fed with
\* identifiers 0..MaxId that all go to one zone.
GridIds == 0..MaxId
GridZone == "BUFFET"

\* an Update frame { npc_id, action, zone: BUFFET } for an identifier the
\* store does not hold yet
PlaceByFrame ==
  \E id \in GridIds :
    /\ id \notin DOMAIN npcs
    /\ Cardinality(DOMAIN npcs) < MaxPlaced
    /\ FrameUpdate(id, "eat", GridZone, NoDraw)

\* the rosters of two rows that are both in BUFFET
GridRosters ==
  {<<Row(i, NoCoord, NoCoord, GridZone), Row(j, NoCoord, NoCoord, GridZone)>> :
     i \in GridIds, j \in GridIds} \
  {<<Row(i, NoCoord, NoCoord, GridZone), Row(i, NoCoord, NoCoord, GridZone)>> :
     i \in GridIds}

\* GET state_dump answers with such a roster
PlaceByRows ==
  \E rows \in GridRosters : loadStateDumpDone("ok", rows, NoDraw)

InitOffset == Init /\ rev \in Zoned

NextOffset ==
  \/ WsOpen
  \/ PlaceByFrame
  \/ PlaceByRows

SpecOffset == InitOffset /\ [][NextOffset]_vars

\* C25: two records with distinct identifiers placed at the same zone anchor
\* never have the same position: each is at the anchor plus
\* ((id mod 4) * 18, floor(id / 4) * 18), which differs for distinct identifiers.
C25_DistinctIdsDistinctPositions ==
  \A i \in DOMAIN npcs :
     /\ npcs[i].x - HeldAnchor(rev, GridZone).x = (i % 4) * 18
     /\ npcs[i].y - HeldAnchor(rev, GridZone).y = (i \div 4) * 18
     /\ \A j \in DOMAIN npcs \ {i} :
          Pt(npcs[i].x, npcs[i].y) # Pt(npcs[j].x, npcs[j].y)

\* C25 happens: an Update frame placed a record in the column of another
\* record of the zone (same id mod 4), below it
C25_Witness ==
  /\ last.op = "Update"
  /\ \E j \in DOMAIN npcs \ {last.id} :
       /\ npcs[j].x = npcs[last.id].x
       /\ npcs[j].y < npcs[last.id].y

\* C26: snapshot requests in flight together may complete in any order, and
\* the store ends with the roster returned to the request issued last: when
\* the response to the latest request has been applied and the response to a
\* request issued before it (before the Reset that issued the latest) arrives
\* next, the store stays as the latest response left it.
C26_LatestReloadWins ==
  [][(/\ last.op = "dump" /\ last.req = requests.issued
      /\ last'.op = "dump" /\ last'.req < requests.issued) =>
       npcs' = npcs]_vars

\* C27: whenever the detail view is open for identifier i and shows a
\* non-empty memory list, the list is the one a recall query for i returned:
\* never the answer to a query for another identifier, nor one that arrived
\* after the view of its identifier was closed.
C27_DetailShowsOwnMemories ==
  (rev = "part001" /\ selectedNpc # NoId /\ selectedNpcRecall # <<>>) =>
     recallFor = selectedNpc

====
